---- MODULE Spec2Model ----
(***************************************************************************)
(* Model of cargo-raze's Bazel back end, impl/src/bazel.rs: the platform   *)
(* resolver (is_bazel_supported_platform, get_matching_bazel_triples,      *)
(* filter_bazel_triples, generate_bazel_conditions) and the build plan     *)
(* renderer (render_planned_build, render_remote_planned_build), and the   *)
(* workspace root detection (is_workspace_root, find_workspace_root).      *)
(*                                                                         *)
(* A string is a sequence of lexemes: the punctuation characters and       *)
(* blank, each one lexeme, and whole words.  Concatenation of strings is   *)
(* concatenation of sequences, so format!() is modelled by what it builds. *)
(***************************************************************************)
EXTENDS Integers, Sequences, FiniteSets, TLC

(***************************************************************************)
(* Bounds of the model.                                                    *)
(***************************************************************************)
MaxArgs == 2
MaxTriples == 3
MaxWhitelist == 2
MaxCrates == 2
MaxDepth == 2
MaxEntries == 2

(***************************************************************************)
(* SUPPORTED_PLATFORM_TRIPLES, in the order of the source.                 *)
(***************************************************************************)
SUPPORTED_PLATFORM_TRIPLES ==
  << "i686-apple-darwin", "i686-pc-windows-gnu", "i686-unknown-linux-gnu",
     "x86_64-apple-darwin", "x86_64-pc-windows-gnu", "x86_64-unknown-linux-gnu",
     "aarch64-apple-ios", "aarch64-linux-android", "aarch64-unknown-linux-gnu",
     "arm-unknown-linux-gnueabi", "i686-linux-android", "i686-unknown-freebsd",
     "powerpc-unknown-linux-gnu", "s390x-unknown-linux-gnu",
     "wasm32-unknown-unknown", "x86_64-apple-ios", "x86_64-linux-android",
     "x86_64-unknown-freebsd" >>

CatalogSet == { SUPPORTED_PLATFORM_TRIPLES[i] : i \in DOMAIN SUPPORTED_PLATFORM_TRIPLES }

(***************************************************************************)
(* get_builtin_target_by_triple: the builtin table of the cfg_expr crate,  *)
(* restricted to the catalog and to one builtin triple outside it.  The    *)
(* result is <<>> for None and <<info>> for Some(info); family and os are  *)
(* "none" where the builtin has None.                                      *)
(***************************************************************************)
TI(t, a, o, f) == [triple |-> t, arch |-> a, os |-> o, family |-> f]

BuiltinTargets ==
  { TI("i686-apple-darwin", "x86", "macos", "unix"),
    TI("i686-pc-windows-gnu", "x86", "windows", "windows"),
    TI("i686-unknown-linux-gnu", "x86", "linux", "unix"),
    TI("x86_64-apple-darwin", "x86_64", "macos", "unix"),
    TI("x86_64-pc-windows-gnu", "x86_64", "windows", "windows"),
    TI("x86_64-unknown-linux-gnu", "x86_64", "linux", "unix"),
    TI("aarch64-apple-ios", "aarch64", "ios", "unix"),
    TI("aarch64-linux-android", "aarch64", "android", "unix"),
    TI("aarch64-unknown-linux-gnu", "aarch64", "linux", "unix"),
    TI("arm-unknown-linux-gnueabi", "arm", "linux", "unix"),
    TI("i686-linux-android", "x86", "android", "unix"),
    TI("i686-unknown-freebsd", "x86", "freebsd", "unix"),
    TI("powerpc-unknown-linux-gnu", "powerpc", "linux", "unix"),
    TI("s390x-unknown-linux-gnu", "s390x", "linux", "unix"),
    TI("wasm32-unknown-unknown", "wasm32", "none", "none"),
    TI("x86_64-apple-ios", "x86_64", "ios", "unix"),
    TI("x86_64-linux-android", "x86_64", "android", "unix"),
    TI("x86_64-unknown-freebsd", "x86_64", "freebsd", "unix"),
    TI("x86_64-pc-windows-msvc", "x86_64", "windows", "windows") }

get_builtin_target_by_triple(t) ==
  LET hit == { b \in BuiltinTargets : b.triple = t }
  IN  IF hit = {} THEN << >> ELSE << CHOOSE b \in hit : TRUE >>

(* The values the builtin information knows for target_os, target_family. *)
KnownOs == { "macos", "windows", "linux", "ios", "android", "freebsd", "redox" }
KnownFamily == { "unix", "windows" }

(***************************************************************************)
(* Strings.                                                                *)
(***************************************************************************)
Quote == "\""
Blank == " "
Keywords == { "all", "any", "not" }

(* Words that are identifiers (a letter or _, then letters, digits, _). *)
IdentWords == { "cfg", "all", "any", "not", "unix", "windows", "fuchsia", "foo",
                "target", "target_os", "target_family", "linux", "redox" }

StartsWith(s, p) == Len(s) >= Len(p) /\ SubSeq(s, 1, Len(p)) = p
EndsWith(s, p) == Len(s) >= Len(p) /\ SubSeq(s, Len(s) - Len(p) + 1, Len(s)) = p

(***************************************************************************)
(* cfg_expr's Lexer.  Lexer::new drops a leading "cfg(" with a trailing    *)
(* ")"; the iterator skips blanks and yields Key, Value (the text between  *)
(* two quotes), the three functions and the punctuation, or fails on an    *)
(* unclosed quote or a character that starts no token.                     *)
(* A token is [t, v]: v is the text of a Key or Value, <<>> otherwise.     *)
(* The result is [ok, toks].                                               *)
(***************************************************************************)
LexerNew(text) ==
  IF StartsWith(text, <<"cfg", "(">>) /\ EndsWith(text, <<")">>)
    THEN SubSeq(text, 3, Len(text) - 1)
    ELSE text

Tok(t, v) == [t |-> t, v |-> v]

RECURSIVE FindQuote(_, _)
(* The least index >= i of a quote in s, or 0. *)
FindQuote(s, i) ==
  IF i > Len(s) THEN 0
  ELSE IF s[i] = Quote THEN i
  ELSE FindQuote(s, i + 1)

RECURSIVE IdentEnd(_, _)
(* The index of the last word of the run of identifier words that starts at i:
   adjacent words are one identifier. *)
IdentEnd(s, i) ==
  IF i < Len(s) /\ s[i + 1] \in IdentWords THEN IdentEnd(s, i + 1) ELSE i

RECURSIVE LexFrom(_, _, _)
LexFrom(s, i, acc) ==
  IF i > Len(s) THEN [ok |-> TRUE, toks |-> acc]
  ELSE IF s[i] = Blank THEN LexFrom(s, i + 1, acc)
  ELSE IF s[i] = "=" THEN LexFrom(s, i + 1, Append(acc, Tok("Equals", << >>)))
  ELSE IF s[i] = "(" THEN LexFrom(s, i + 1, Append(acc, Tok("OpenParen", << >>)))
  ELSE IF s[i] = ")" THEN LexFrom(s, i + 1, Append(acc, Tok("CloseParen", << >>)))
  ELSE IF s[i] = "," THEN LexFrom(s, i + 1, Append(acc, Tok("Comma", << >>)))
  ELSE IF s[i] = Quote THEN
    LET j == FindQuote(s, i + 1)
    IN  IF j = 0 THEN [ok |-> FALSE, toks |-> acc]
        ELSE LexFrom(s, j + 1, Append(acc, Tok("Value", SubSeq(s, i + 1, j - 1))))
  ELSE IF s[i] \in IdentWords THEN
    LET j == IdentEnd(s, i)
        w == SubSeq(s, i, j)
    IN  IF j = i /\ s[i] \in Keywords
          THEN LexFrom(s, j + 1, Append(acc, Tok("Fn", w)))
          ELSE LexFrom(s, j + 1, Append(acc, Tok("Key", w)))
  ELSE [ok |-> FALSE, toks |-> acc]

Lex(text) == LexFrom(LexerNew(text), 1, << >>)

(***************************************************************************)
(* Predicates and parse_predicate.  A predicate is [kind, key, val] with   *)
(* kind "Target" (key "family" or "os"), "KeyValue" or "Flag".  val is     *)
(* <<>> for no value and <<text>> for a value.                             *)
(***************************************************************************)
Pred(kind, key, val) == [kind |-> kind, key |-> key, val |-> val]
NoPred == Pred("None", << >>, << >>)

parse_predicate(key, val) ==
  IF val = << >> THEN
    IF key \in { <<"unix">>, <<"windows">> }
      THEN [ok |-> TRUE, pred |-> Pred("Target", <<"family">>, key)]
      ELSE [ok |-> TRUE, pred |-> Pred("Flag", key, << >>)]
  ELSE IF key = <<"target_os">> THEN
    IF \E o \in KnownOs : val[1] = <<o>>
      THEN [ok |-> TRUE, pred |-> Pred("Target", <<"os">>, val[1])]
      ELSE [ok |-> FALSE, pred |-> NoPred]
  ELSE IF key = <<"target_family">> THEN
    IF \E f \in KnownFamily : val[1] = <<f>>
      THEN [ok |-> TRUE, pred |-> Pred("Target", <<"family">>, val[1])]
      ELSE [ok |-> FALSE, pred |-> NoPred]
  ELSE [ok |-> TRUE, pred |-> Pred("KeyValue", key, val[1])]

(***************************************************************************)
(* Expression::parse: one pass over the tokens with a stack of open        *)
(* functions, producing the expression in postfix form.  A node is         *)
(* [n, c, p]: n is "Pred" (p the predicate) or "All", "Any" (c operands)   *)
(* or "Not".                                                               *)
(***************************************************************************)
PredNode(p) == [n |-> "Pred", c |-> 0, p |-> p]
FnNode(f, c) == [n |-> f, c |-> c, p |-> NoPred]
FuncAndPreds(f) == [func |-> f, preds |-> << >>, nest |-> 0, parens |-> FALSE]

ParseInit ==
  [ok |-> TRUE, last |-> "None", stack |-> << >>, key |-> << >>, val |-> << >>,
   queue |-> << >>, roots |-> 0]

ParseFail(st) == [st EXCEPT !.ok = FALSE]

FnName(w) == IF w = <<"all">> THEN "All" ELSE IF w = <<"any">> THEN "Any" ELSE "Not"

(* The pending key (and value) as a predicate: [ok, preds], preds <<>> or <<p>>. *)
TakePred(st) ==
  IF st.key = << >> THEN [ok |-> TRUE, preds |-> << >>]
  ELSE LET r == parse_predicate(st.key[1], st.val)
       IN  [ok |-> r.ok, preds |-> IF r.ok THEN << PredNode(r.pred) >> ELSE << >>]

ParseClose(st) ==
  IF st.last \in { "None", "Fn", "Equals" } THEN ParseFail(st)
  ELSE IF st.stack = << >> THEN ParseFail(st)
  ELSE
    LET top == st.stack[Len(st.stack)]
        rest == SubSeq(st.stack, 1, Len(st.stack) - 1)
        inner == TakePred(st)
        num == Len(top.preds) + Len(inner.preds) + top.nest
    IN  IF ~inner.ok THEN ParseFail(st)
        ELSE IF top.func = "Not" /\ num # 1 THEN ParseFail(st)
        ELSE [st EXCEPT
                !.key = << >>, !.val = << >>,
                !.queue = st.queue \o top.preds \o inner.preds \o << FnNode(top.func, num) >>,
                !.stack = IF rest = << >> THEN rest
                          ELSE [rest EXCEPT ![Len(rest)].nest = @ + 1],
                !.roots = IF rest = << >> THEN @ + 1 ELSE @]

ParseComma(st) ==
  IF st.last \in { "None", "OpenParen", "Fn", "Equals" } THEN ParseFail(st)
  ELSE
    LET inner == TakePred(st)
    IN  IF ~inner.ok THEN ParseFail(st)
        ELSE IF inner.preds = << >> THEN [st EXCEPT !.key = << >>, !.val = << >>]
        ELSE IF st.stack # << >>
          THEN [st EXCEPT !.key = << >>, !.val = << >>,
                          !.stack[Len(st.stack)].preds = @ \o inner.preds]
          ELSE [st EXCEPT !.key = << >>, !.val = << >>,
                          !.queue = @ \o inner.preds, !.roots = @ + 1]

ParseToken(st, tok) ==
  LET r ==
    CASE tok.t = "Key" ->
           IF st.last \in { "None", "OpenParen", "Comma" }
             THEN [st EXCEPT !.key = << tok.v >>] ELSE ParseFail(st)
      [] tok.t = "Value" ->
           IF st.last = "Equals" THEN [st EXCEPT !.val = << tok.v >>] ELSE ParseFail(st)
      [] tok.t = "Equals" ->
           IF st.last = "Key" THEN st ELSE ParseFail(st)
      [] tok.t = "Fn" ->
           IF st.last \in { "None", "OpenParen", "Comma" }
             THEN [st EXCEPT !.stack = Append(@, FuncAndPreds(FnName(tok.v)))]
             ELSE ParseFail(st)
      [] tok.t = "OpenParen" ->
           IF st.last = "Fn"
             THEN [st EXCEPT !.stack[Len(st.stack)].parens = TRUE]
             ELSE ParseFail(st)
      [] tok.t = "CloseParen" -> ParseClose(st)
      [] tok.t = "Comma" -> ParseComma(st)
  IN  [r EXCEPT !.last = tok.t]

RECURSIVE ParseTokens(_, _, _)
ParseTokens(toks, i, st) ==
  IF ~st.ok \/ i > Len(toks) THEN st
  ELSE ParseTokens(toks, i + 1, ParseToken(st, toks[i]))

(* The end of input: a dangling "=", an open function, the root predicate. *)
ParseEnd(st) ==
  IF ~st.ok \/ st.last = "Equals" \/ st.stack # << >> THEN [ok |-> FALSE, expr |-> << >>]
  ELSE
    LET inner == TakePred(st)
        queue == st.queue \o inner.preds
        roots == st.roots + Len(inner.preds)
    IN  IF ~inner.ok \/ queue = << >> \/ roots > 1
          THEN [ok |-> FALSE, expr |-> << >>]
          ELSE [ok |-> TRUE, expr |-> queue]

(* Expression::parse: [ok, expr]; ok = FALSE is Err(ParseError). *)
ExpressionParse(text) ==
  LET lx == Lex(text)
  IN  IF ~lx.ok THEN [ok |-> FALSE, expr |-> << >>]
      ELSE ParseEnd(ParseTokens(lx.toks, 1, ParseInit))

(***************************************************************************)
(* Expression::eval: the postfix expression over a stack of booleans.      *)
(* vals[i] is what the caller's closure returns for the predicate at node  *)
(* i.  all() of nothing is true, any() of nothing is false.                *)
(***************************************************************************)
RECURSIVE PopAll(_, _, _)
PopAll(stack, count, acc) ==
  IF count = 0 THEN Append(stack, acc)
  ELSE PopAll(SubSeq(stack, 1, Len(stack) - 1), count - 1, acc /\ stack[Len(stack)])

RECURSIVE PopAny(_, _, _)
PopAny(stack, count, acc) ==
  IF count = 0 THEN Append(stack, acc)
  ELSE PopAny(SubSeq(stack, 1, Len(stack) - 1), count - 1, acc \/ stack[Len(stack)])

RECURSIVE EvalFrom(_, _, _, _)
EvalFrom(expr, vals, i, stack) ==
  IF i > Len(expr) THEN stack[Len(stack)]
  ELSE LET node == expr[i]
       IN  CASE node.n = "Pred" -> EvalFrom(expr, vals, i + 1, Append(stack, vals[i]))
             [] node.n = "All" -> EvalFrom(expr, vals, i + 1, PopAll(stack, node.c, TRUE))
             [] node.n = "Any" -> EvalFrom(expr, vals, i + 1, PopAny(stack, node.c, FALSE))
             [] node.n = "Not" ->
                  EvalFrom(expr, vals, i + 1,
                           Append(SubSeq(stack, 1, Len(stack) - 1), ~stack[Len(stack)]))

ExpressionEval(expr, vals) == EvalFrom(expr, vals, 1, << >>)

(* TargetPredicate::matches: the predicate's value against the target's attribute. *)
TargetMatches(pred, target_info) ==
  IF pred.key = <<"family">> THEN pred.val = << target_info.family >>
  ELSE IF pred.key = <<"os">> THEN pred.val = << target_info.os >>
  ELSE FALSE

(* A closure without the KeyValue arm. *)
SupportedPredicate_NoKeyValue(pred, target_info) ==
  CASE pred.kind = "Target" -> TargetMatches(pred, target_info)
    [] OTHER -> FALSE

(* The closure is_bazel_supported_platform hands to eval. *)
SupportedPredicate(pred, target_info) ==
  CASE pred.kind = "Target" -> TargetMatches(pred, target_info)
    [] pred.kind = "KeyValue" ->
         pred.key = <<"target">> /\ pred.val = << target_info.triple >>
    [] OTHER -> FALSE

(* The closure get_matching_bazel_triples hands to eval. *)
MatchingPredicate(pred, target_info) ==
  CASE pred.kind = "Target" -> TargetMatches(pred, target_info)
    [] OTHER -> FALSE

SupportedEval(expr, triple) ==
  LET target_info == get_builtin_target_by_triple(triple)[1]
  IN  ExpressionEval(expr, [i \in DOMAIN expr |-> SupportedPredicate(expr[i].p, target_info)])

MatchingEval(expr, triple) ==
  LET target_info == get_builtin_target_by_triple(triple)[1]
  IN  ExpressionEval(expr, [i \in DOMAIN expr |-> MatchingPredicate(expr[i].p, target_info)])

(***************************************************************************)
(* is_bazel_supported_platform.                                            *)
(***************************************************************************)
SupportedTargetExp(target) ==
  IF StartsWith(target, <<"cfg", "(">>) THEN target
  ELSE <<"cfg", "(", "target", Blank, "=", Blank, Quote>> \o target \o <<Quote, ")">>

(* What the parse failure returns. *)
SupportedOnParseError == << FALSE, FALSE >>

(* matches_all starting false. *)
SupportedLoopInit_BothFalse == << FALSE, FALSE >>

(* The accumulators before the loop. *)
SupportedLoopInit == << FALSE, TRUE >>

(* One turn of the loop: acc is <<is_supported, matches_all>>. *)
SupportedLoopStep(acc, matched) ==
  IF matched THEN << TRUE, acc[2] >> ELSE << acc[1], FALSE >>

RECURSIVE SupportedLoop(_, _, _)
SupportedLoop(expr, i, acc) ==
  IF i > Len(SUPPORTED_PLATFORM_TRIPLES) THEN acc
  ELSE SupportedLoop(expr, i + 1,
         SupportedLoopStep(acc, SupportedEval(expr, SUPPORTED_PLATFORM_TRIPLES[i])))

is_bazel_supported_platform(target) ==
  LET expression == ExpressionParse(SupportedTargetExp(target))
  IN  IF ~expression.ok THEN SupportedOnParseError
      ELSE SupportedLoop(expression.expr, 1, SupportedLoopInit)

(***************************************************************************)
(* get_matching_bazel_triples: [ok, triples]; ok = FALSE is the Err of     *)
(* Expression::parse, passed on by "?".                                    *)
(***************************************************************************)
MatchingTargetExp(target) ==
  IF StartsWith(target, <<"cfg", "(">>) THEN target
  ELSE <<"cfg", "(", "target", "=", Quote>> \o target \o <<Quote, ")">>

(* The parse failure swallowed, as the sibling function does. *)
MatchingOnParseError_Swallowed == [ok |-> TRUE, triples |-> << >>]

MatchingOnParseError == [ok |-> FALSE, triples |-> << >>]

RECURSIVE MatchingFilterMap(_, _, _)
MatchingFilterMap(expr, i, acc) ==
  IF i > Len(SUPPORTED_PLATFORM_TRIPLES) THEN acc
  ELSE LET triple == SUPPORTED_PLATFORM_TRIPLES[i]
           target_info == get_builtin_target_by_triple(triple)[1]
       IN  MatchingFilterMap(expr, i + 1,
             IF MatchingEval(expr, triple) THEN Append(acc, target_info.triple) ELSE acc)

get_matching_bazel_triples(target) ==
  LET expression == ExpressionParse(MatchingTargetExp(target))
  IN  IF ~expression.ok THEN MatchingOnParseError
      ELSE [ok |-> TRUE, triples |-> MatchingFilterMap(expression.expr, 1, << >>)]

(***************************************************************************)
(* Vec<String>::sort: strings compare byte by byte.  StringOrder lists the *)
(* triple names of the model in that order.                                *)
(***************************************************************************)
StringOrder ==
  << "aarch64-apple-ios", "aarch64-linux-android", "aarch64-unknown-linux-gnu",
     "arm-unknown-linux-gnueabi", "i686-apple-darwin", "i686-linux-android",
     "i686-pc-windows-gnu", "i686-unknown-freebsd", "i686-unknown-linux-gnu",
     "powerpc-unknown-linux-gnu", "s390x-unknown-linux-gnu",
     "unknown-unknown-unknown", "wasm32-unknown-unknown", "x86_64-apple-darwin",
     "x86_64-apple-ios", "x86_64-linux-android", "x86_64-pc-windows-gnu",
     "x86_64-pc-windows-msvc", "x86_64-unknown-freebsd",
     "x86_64-unknown-linux-gnu" >>

StringRank(a) == CHOOSE i \in DOMAIN StringOrder : StringOrder[i] = a

(* a <= b for two strings. *)
StringLe(a, b) == StringRank(a) <= StringRank(b)

RECURSIVE SortInsert(_, _)
(* x put into the sorted sequence s, after the elements equal to it. *)
SortInsert(s, x) ==
  IF s = << >> THEN << x >>
  ELSE IF StringLe(s[Len(s)], x) THEN Append(s, x)
  ELSE Append(SortInsert(SubSeq(s, 1, Len(s) - 1), x), s[Len(s)])

RECURSIVE SortFrom(_, _, _)
SortFrom(s, i, acc) ==
  IF i > Len(s) THEN acc ELSE SortFrom(s, i + 1, SortInsert(acc, s[i]))

Sort(s) == SortFrom(s, 1, << >>)

(***************************************************************************)
(* filter_bazel_triples: the list after the call.                          *)
(***************************************************************************)
RECURSIVE Retain(_, _, _, _)
(* Vec::retain with the closure |triple| triples_whitelist.iter().any(|i| i == triple). *)
Retain(ts, wl, i, acc) ==
  IF i > Len(ts) THEN acc
  ELSE Retain(ts, wl, i + 1,
              IF \E j \in DOMAIN wl : wl[j] = ts[i] THEN Append(acc, ts[i]) ELSE acc)

(* The filter without its final sort. *)
filter_bazel_triples_NoSort(ts, triples_whitelist) ==
  IF Len(triples_whitelist) = 0 THEN ts
  ELSE Retain(ts, triples_whitelist, 1, << >>)

(* The filter without its early return. *)
filter_bazel_triples_NoEarlyOut(ts, triples_whitelist) ==
  Sort(Retain(ts, triples_whitelist, 1, << >>))

filter_bazel_triples(ts, triples_whitelist) ==
  IF Len(triples_whitelist) = 0 THEN ts
  ELSE Sort(Retain(ts, triples_whitelist, 1, << >>))

(***************************************************************************)
(* generate_bazel_conditions: [ok, labels, err].  err is <<>> or <<t>>,    *)
(* the triple the error message names.  A label is the prefix followed by  *)
(* the triple; the labels share the prefix, so they sort as their triples. *)
(***************************************************************************)
PlatformPrefix == "@io_bazel_rules_rust//rust/platform:"

BazelLabel(triple) == << PlatformPrefix, triple >>

(* A sanity check that looks at the first triple only. *)
FirstNotATriple_HeadOnly(ts, i) ==
  IF ts # << >> /\ get_builtin_target_by_triple(ts[1]) = << >> THEN 1 ELSE 0

RECURSIVE FirstNotATriple(_, _)
(* The sanity check: the index of the first string that is no builtin triple, or 0. *)
FirstNotATriple(ts, i) ==
  IF i > Len(ts) THEN 0
  ELSE IF get_builtin_target_by_triple(ts[i]) = << >> THEN i
  ELSE FirstNotATriple(ts, i + 1)

SortLabels(ls) == LET sorted == Sort([i \in DOMAIN ls |-> ls[i][2]])
                  IN  [i \in DOMAIN sorted |-> BazelLabel(sorted[i])]

generate_bazel_conditions(ts) ==
  LET bad == FirstNotATriple(ts, 1)
  IN  IF bad # 0 THEN [ok |-> FALSE, labels |-> << >>, err |-> << ts[bad] >>]
      ELSE [ok |-> TRUE,
            labels |-> SortLabels([i \in DOMAIN ts |-> BazelLabel(ts[i])]),
            err |-> << >>]

(***************************************************************************)
(* The expressions the model feeds to the resolver.  Each is built with    *)
(* the set of catalog triples it denotes: [text, sat].  sp chooses the     *)
(* spelling with blanks (key = "value", a, b) or without.                  *)
(***************************************************************************)
Attr(t) == CHOOSE b \in BuiltinTargets : b.triple = t

G(text, sat) == [text |-> text, sat |-> sat]

KeyValueText(key, value, sp) ==
  IF sp THEN << key, Blank, "=", Blank, Quote, value, Quote >>
  ELSE << key, "=", Quote, value, Quote >>

LeafUnix == G(<<"unix">>, { t \in CatalogSet : Attr(t).family = "unix" })
LeafWindows == G(<<"windows">>, { t \in CatalogSet : Attr(t).family = "windows" })
LeafFuchsia == G(<<"fuchsia">>, {})
LeafLinux(sp) == G(KeyValueText("target_os", "linux", sp),
                   { t \in CatalogSet : Attr(t).os = "linux" })
LeafRedox(sp) == G(KeyValueText("target_os", "redox", sp), {})
LeafTriple(triple, sp) == G(KeyValueText("target", triple, sp), { triple } \cap CatalogSet)

LeafOtherKey(sp) == G(KeyValueText("foo", "x86_64-apple-darwin", sp), {})

(* The predicates no catalog triple satisfies. *)
AbsentLeaves(sp) == { LeafFuchsia, LeafRedox(sp) }

ArgLeaves(sp) == { LeafUnix, LeafFuchsia, LeafLinux(sp), LeafTriple("x86_64-apple-darwin", sp) }

Leaves(sp) == ArgLeaves(sp) \cup { LeafWindows, LeafRedox(sp), LeafOtherKey(sp) }

RECURSIVE JoinTexts(_, _, _)
JoinTexts(gs, i, sp) ==
  IF i > Len(gs) THEN << >>
  ELSE gs[i].text
       \o (IF i < Len(gs) THEN (IF sp THEN << ",", Blank >> ELSE << "," >>) ELSE << >>)
       \o JoinTexts(gs, i + 1, sp)

NotOf(g) == G(<<"not", "(">> \o g.text \o <<")">>, CatalogSet \ g.sat)

AllOf(gs, sp) ==
  G(<<"all", "(">> \o JoinTexts(gs, 1, sp) \o <<")">>,
    { t \in CatalogSet : \A i \in DOMAIN gs : t \in gs[i].sat })

AnyOf(gs, sp) ==
  G(<<"any", "(">> \o JoinTexts(gs, 1, sp) \o <<")">>,
    { t \in CatalogSet : \E i \in DOMAIN gs : t \in gs[i].sat })

ArgLists(sp) == UNION { [1..n -> ArgLeaves(sp)] : n \in 0..MaxArgs }

Level1(sp) ==
  Leaves(sp)
  \cup { NotOf(g) : g \in Leaves(sp) }
  \cup { AllOf(gs, sp) : gs \in ArgLists(sp) }
  \cup { AnyOf(gs, sp) : gs \in ArgLists(sp) }

Level2(sp) ==
  { NotOf(g) : g \in Level1(sp) }
  \cup { AllOf(<< g, LeafUnix >>, sp) : g \in Level1(sp) }
  \cup { AnyOf(<< LeafWindows, g >>, sp) : g \in Level1(sp) }

Simple == Level1(TRUE) \cup Level1(FALSE)
Exprs == Simple \cup Level2(TRUE) \cup Level2(FALSE)

Cfg(text) == <<"cfg", "(">> \o text \o <<")">>

(* s without its k-th lexeme. *)
Drop(s, k) == SubSeq(s, 1, k - 1) \o SubSeq(s, k + 1, Len(s))

BareWords ==
  CatalogSet \cup { "x86_64-pc-windows-msvc", "unknown-unknown-unknown", "unix", "foo" }

(* Bare inputs: a word denotes the triple of that name. *)
Bare == { G(<< w >>, { w } \cap CatalogSet) : w \in BareWords }

CfgInputs == { Cfg(g.text) : g \in Exprs }
DamagedInputs ==
  UNION { { Drop(Cfg(g.text), k) : k \in 1..Len(Cfg(g.text)) } : g \in Exprs }
BareInputs ==
  { g.text : g \in Bare }
  \cup { << "foo", Quote >>, << Quote, "foo", Quote >>, << >>,
         << "not", "(", "unix", ")" >> }

TargetInputs == CfgInputs \cup DamagedInputs \cup BareInputs

(* The strings of the triple lists handed to the filter and the label builder. *)
ListNames ==
  { "i686-apple-darwin", "aarch64-apple-ios", "x86_64-pc-windows-msvc",
    "unknown-unknown-unknown" }

SeqsUpTo(S, n) == UNION { [1..k -> S] : k \in 0..n }

(***************************************************************************)
(* The renderer.  A CrateContext is [pkg_name, expected_build_path,        *)
(* additional_build_file]; an Option is <<>> for None and <<x>> for        *)
(* Some(x).  Paths and file contents are strings.                          *)
(***************************************************************************)
Slash == "/"

(* format!("{}/{}", a, b) *)
PathJoin(a, b) == a \o << Slash >> \o b

FileOutputs(path, contents) == [path |-> path, contents |-> contents]

RazeErrorRendering(crate_name_opt, message) ==
  [crate_name_opt |-> crate_name_opt, message |-> message]

NoError == RazeErrorRendering(<< >>, << >>)

(* The Result of a render call: Ok(outputs) or Err(err). *)
RenderOk(outputs) == [ok |-> TRUE, outputs |-> outputs, err |-> NoError]
RenderErr(err) == [ok |-> FALSE, outputs |-> << >>, err |-> err]
NoResult == RenderErr(NoError)

(* The files std::fs::read_to_string can read, with their contents. *)
ReadableFiles == { <<"README.md">> }
FileContents(file_path) == << "contents of " >> \o file_path
IoErrorMessage == "No such file or directory (os error 2)"

(* Tera's output for a template and its context, and its error chain. *)
PkgNames(all_packages) == [i \in DOMAIN all_packages |-> all_packages[i].pkg_name]
render_crate(package) == << "templates/crate.BUILD.template", package.pkg_name >>
render_remote_crate(package) == << "templates/crate.BUILD.template", package.pkg_name >>
render_aliases(all_packages) == << "templates/workspace.BUILD.template" >> \o PkgNames(all_packages)
render_remote_aliases(all_packages) ==
  << "templates/workspace.BUILD.template" >> \o PkgNames(all_packages)
render_bzl_fetch(all_packages) ==
  << "templates/remote_crates.bzl.template" >> \o PkgNames(all_packages)
TeraErrorChain == << "Failed to render template", "Variable not found in context" >>

RECURSIVE JoinMessages(_, _)
JoinMessages(messages, i) ==
  IF i > Len(messages) THEN << >>
  ELSE << messages[i] >>
       \o (IF i < Len(messages) THEN << "\n|-" >> ELSE << >>)
       \o JoinMessages(messages, i + 1)

(* unwind_tera_error!: the messages of the cause chain, joined. *)
unwind_tera_error(chain) == JoinMessages(chain, 1)

(* include_additional_build_file whose read error names no crate. *)
include_additional_build_file_AnonymousError(package, existing_contents) ==
  IF package.additional_build_file = << >>
    THEN [ok |-> TRUE, contents |-> existing_contents, err |-> NoError]
  ELSE LET file_path == package.additional_build_file[1]
       IN  IF file_path \notin ReadableFiles
             THEN [ok |-> FALSE, contents |-> << >>,
                   err |-> RazeErrorRendering(<< >>,
                             << "failed to read additional_build_file: ",
                                IoErrorMessage >>)]
           ELSE [ok |-> TRUE,
                 contents |-> existing_contents
                                \o << "\n# Additional content from " >>
                                \o file_path \o << "\n" >>
                                \o FileContents(file_path),
                 err |-> NoError]

(* include_additional_build_file that leaves the provenance line out. *)
include_additional_build_file_NoProvenance(package, existing_contents) ==
  IF package.additional_build_file = << >>
    THEN [ok |-> TRUE, contents |-> existing_contents, err |-> NoError]
  ELSE LET file_path == package.additional_build_file[1]
       IN  IF file_path \notin ReadableFiles
             THEN [ok |-> FALSE, contents |-> << >>,
                   err |-> RazeErrorRendering(<< package.pkg_name >>,
                             << "failed to read additional_build_file: ",
                                IoErrorMessage >>)]
           ELSE [ok |-> TRUE,
                 contents |-> existing_contents \o << "\n" >>
                                \o FileContents(file_path),
                 err |-> NoError]

(* include_additional_build_file: [ok, contents, err]. *)
include_additional_build_file(package, existing_contents) ==
  IF package.additional_build_file = << >>
    THEN [ok |-> TRUE, contents |-> existing_contents, err |-> NoError]
  ELSE
    LET file_path == package.additional_build_file[1]
    IN  IF file_path \notin ReadableFiles
          THEN [ok |-> FALSE, contents |-> << >>,
                err |-> RazeErrorRendering(<< package.pkg_name >>,
                          << "failed to read additional_build_file: ", IoErrorMessage >>)]
          ELSE [ok |-> TRUE,
                contents |-> existing_contents
                             \o << "\n# Additional content from " >> \o file_path \o << "\n" >>
                             \o FileContents(file_path),
                err |-> NoError]

(* The crate's path without the prefix. *)
LocalCratePath_NoPrefix(rd, package) == package.expected_build_path

(* The crate's path with a remote segment added. *)
RemoteCratePath_AddsRemote(rd, package) ==
  rd.path_prefix \o << Slash, "remote", Slash >> \o package.expected_build_path

(* The path of a crate's build file, in local and in remote mode. *)
LocalCratePath(rd, package) == PathJoin(rd.path_prefix, package.expected_build_path)
RemoteCratePath(rd, package) == PathJoin(rd.path_prefix, package.expected_build_path)

(* The placeholder beside the alias file instead of under remote. *)
RemotePlaceholder_NotUnderRemote(rd) ==
  FileOutputs(PathJoin(rd.path_prefix, rd.buildfile_suffix), << >>)

(* The file render_remote_planned_build starts its outputs with. *)
RemotePlaceholder(rd) ==
  FileOutputs(rd.path_prefix \o << Slash, "remote", Slash >> \o rd.buildfile_suffix, << >>)

(* The plans and render details the model feeds to the renderer. *)
CrateNames == { "test-library", "test-binary" }
VendorBuildPath(name) == << "vendor", Slash, name, Slash, "BUILD" >>
RemoteBuildPath(name) == << "remote", Slash, name, ".BUILD" >>
AdditionalBuildFiles == { << >>, << <<"README.md">> >>, << <<"non-existent-file">> >> }

CrateContexts ==
  UNION { { [pkg_name |-> n, expected_build_path |-> p, additional_build_file |-> a] :
              p \in { VendorBuildPath(n), RemoteBuildPath(n) }, a \in AdditionalBuildFiles } :
          n \in CrateNames }

RenderDetailsInputs ==
  { [path_prefix |-> << "./some_render_prefix" >>, buildfile_suffix |-> << b >>] :
      b \in { "BUILD", "BUILD.bazel" } }

(***************************************************************************)
(* Paths and the file system seen by find_workspace_root.  An absolute     *)
(* path is the sequence of its components, the root directory the empty    *)
(* sequence.                                                               *)
(***************************************************************************)
join(dir, name) == Append(dir, name)

(* Path::parent: None for the root. *)
parent_RootIsItsOwnParent(path) ==
  IF path = << >> THEN << path >> ELSE << SubSeq(path, 1, Len(path) - 1) >>

parent(path) ==
  IF path = << >> THEN << >> ELSE << SubSeq(path, 1, Len(path) - 1) >>

DirNames == { "ws", "sub" }
Dirs == SeqsUpTo(DirNames, MaxDepth)
WorkspaceFileNames == { "WORKSPACE.bazel", "WORKSPACE" }
WorkspaceFiles == { join(d, n) : d \in Dirs, n \in WorkspaceFileNames }

RECURSIVE SetsUpTo(_, _)
SetsUpTo(S, n) ==
  IF n = 0 THEN { {} }
  ELSE LET smaller == SetsUpTo(S, n - 1)
       IN  smaller \cup { e \cup { x } : e \in smaller, x \in S }

(* The file systems: at most MaxEntries workspace files, anywhere. *)
FileSystems == SetsUpTo(WorkspaceFiles, MaxEntries)

(* What env::current_dir() returns: Err, or Ok of a directory. *)
CurrentDirs == { << >> } \cup { << d >> : d \in Dirs }

(***************************************************************************)
(* State.                                                                  *)
(***************************************************************************)
VARIABLES
  op,             \* the call in progress or returned last
  target,         \* the argument of the resolver calls
  supported,      \* what is_bazel_supported_platform returned
  matched,        \* what get_matching_bazel_triples returned
  triples,        \* the caller's Vec<String> of triples
  whitelist,      \* the caller's Vec<String> whitelist
  conditions,     \* what generate_bazel_conditions returned
  pc,             \* where a render call stands
  render_details, \* its RenderDetails
  crate_contexts, \* its PlannedBuild's crate list
  idx,            \* the crate the for loop is at
  file_outputs,   \* the local Vec<FileOutputs>
  render_result,  \* what the render call returned
  fs,             \* the paths that exist in the file system
  cwd,            \* what env::current_dir() returned to find_workspace_root
  dir,            \* the dir of find_workspace_root's loop
  workspace_root  \* what find_workspace_root returned

resolver_vars == << target, supported, matched, triples, whitelist, conditions >>
render_vars == << pc, render_details, crate_contexts, idx, file_outputs, render_result >>
walk_vars == << fs, cwd, dir, workspace_root >>
vars == << op, target, supported, matched, triples, whitelist, conditions,
           pc, render_details, crate_contexts, idx, file_outputs, render_result,
           fs, cwd, dir, workspace_root >>

NoMatched == [ok |-> FALSE, triples |-> << >>]
NoConditions == [ok |-> FALSE, labels |-> << >>, err |-> << >>]
NoDetails == [path_prefix |-> << >>, buildfile_suffix |-> << >>]

Init ==
  /\ op = "none"
  /\ target = << >>
  /\ supported = << FALSE, FALSE >>
  /\ matched = NoMatched
  /\ triples = << >>
  /\ whitelist = << >>
  /\ conditions = NoConditions
  /\ pc = "idle"
  /\ render_details = NoDetails
  /\ crate_contexts = << >>
  /\ idx = 0
  /\ file_outputs = << >>
  /\ render_result = NoResult
  /\ fs = {}
  /\ cwd = << >>
  /\ dir = << >>
  /\ workspace_root = << >>

IsSupportedCall ==
  /\ op = "none"
  /\ \E t \in TargetInputs :
       /\ op' = "is_bazel_supported_platform"
       /\ target' = t
       /\ supported' = is_bazel_supported_platform(t)
       /\ UNCHANGED << matched, triples, whitelist, conditions >>
       /\ UNCHANGED render_vars
       /\ UNCHANGED walk_vars

MatchingCall ==
  /\ op = "none"
  /\ \E t \in TargetInputs :
       /\ op' = "get_matching_bazel_triples"
       /\ target' = t
       /\ matched' = get_matching_bazel_triples(t)
       /\ UNCHANGED << supported, triples, whitelist, conditions >>
       /\ UNCHANGED render_vars
       /\ UNCHANGED walk_vars

(* The caller builds a triple list and a whitelist. *)
LoadTriples ==
  /\ op = "none"
  /\ \E ts \in SeqsUpTo(ListNames, MaxTriples), wl \in SeqsUpTo(ListNames, MaxWhitelist) :
       /\ op' = "load"
       /\ triples' = ts
       /\ whitelist' = wl
       /\ UNCHANGED << target, supported, matched, conditions >>
       /\ UNCHANGED render_vars
       /\ UNCHANGED walk_vars

FilterCall ==
  /\ op = "load"
  /\ op' = "filter_bazel_triples"
  /\ triples' = filter_bazel_triples(triples, whitelist)
  /\ UNCHANGED << target, supported, matched, whitelist, conditions >>
  /\ UNCHANGED render_vars
  /\ UNCHANGED walk_vars

ConditionsCall ==
  /\ op \in { "load", "filter_bazel_triples" }
  /\ op' = "generate_bazel_conditions"
  /\ conditions' = generate_bazel_conditions(triples)
  /\ UNCHANGED << target, supported, matched, triples, whitelist >>
  /\ UNCHANGED render_vars
  /\ UNCHANGED walk_vars

(***************************************************************************)
(* render_planned_build.                                                   *)
(***************************************************************************)
RenderFails(err) ==
  /\ pc' = "done"
  /\ file_outputs' = << >>
  /\ render_result' = RenderErr(err)
  /\ UNCHANGED idx

LocalStart ==
  /\ op = "none"
  /\ \E rd \in RenderDetailsInputs, cs \in SeqsUpTo(CrateContexts, MaxCrates) :
       /\ op' = "render_planned_build"
       /\ render_details' = rd
       /\ crate_contexts' = cs
       /\ file_outputs' = << >>
       /\ idx' = 1
       /\ pc' = "crates"
       /\ UNCHANGED render_result
       /\ UNCHANGED resolver_vars
       /\ UNCHANGED walk_vars

(* One turn of the for loop over crate_contexts. *)
LocalCrate ==
  /\ op = "render_planned_build" /\ pc = "crates" /\ idx <= Len(crate_contexts)
  /\ LET package == crate_contexts[idx]
         final == include_additional_build_file(package, render_crate(package))
     IN  \E tera_ok \in BOOLEAN :
           IF ~tera_ok
             THEN RenderFails(RazeErrorRendering(<< >>, unwind_tera_error(TeraErrorChain)))
           ELSE IF ~final.ok THEN RenderFails(final.err)
           ELSE /\ file_outputs' =
                     Append(file_outputs,
                            FileOutputs(LocalCratePath(render_details, package),
                                        final.contents))
                /\ idx' = idx + 1
                /\ UNCHANGED << pc, render_result >>
  /\ UNCHANGED << op, render_details, crate_contexts >>
  /\ UNCHANGED resolver_vars
  /\ UNCHANGED walk_vars

(* The root build file rendered at any turn of the loop. *)
LocalAliases_BeforeLoopEnds ==
  /\ op = "render_planned_build" /\ pc = "crates"
  /\ LET build_file_path == PathJoin(render_details.path_prefix,
                                     render_details.buildfile_suffix)
         outputs == Append(file_outputs,
                           FileOutputs(build_file_path,
                                       render_aliases(crate_contexts)))
     IN  /\ file_outputs' = outputs
         /\ render_result' = RenderOk(outputs)
         /\ pc' = "done"
         /\ UNCHANGED idx
  /\ UNCHANGED << op, render_details, crate_contexts >>
  /\ UNCHANGED resolver_vars
  /\ UNCHANGED walk_vars

(* After the loop: the root build file, and the return. *)
LocalAliases ==
  /\ op = "render_planned_build" /\ pc = "crates" /\ idx > Len(crate_contexts)
  /\ LET build_file_path == PathJoin(render_details.path_prefix,
                                     render_details.buildfile_suffix)
     IN  \E tera_ok \in BOOLEAN :
           IF ~tera_ok
             THEN RenderFails(RazeErrorRendering(<< >>, unwind_tera_error(TeraErrorChain)))
           ELSE LET outputs == Append(file_outputs,
                                      FileOutputs(build_file_path,
                                                  render_aliases(crate_contexts)))
                IN  /\ file_outputs' = outputs
                    /\ render_result' = RenderOk(outputs)
                    /\ pc' = "done"
                    /\ UNCHANGED idx
  /\ UNCHANGED << op, render_details, crate_contexts >>
  /\ UNCHANGED resolver_vars
  /\ UNCHANGED walk_vars

(***************************************************************************)
(* render_remote_planned_build.                                            *)
(***************************************************************************)
RemoteStart ==
  /\ op = "none"
  /\ \E rd \in RenderDetailsInputs, cs \in SeqsUpTo(CrateContexts, MaxCrates) :
       /\ op' = "render_remote_planned_build"
       /\ render_details' = rd
       /\ crate_contexts' = cs
       /\ file_outputs' = << RemotePlaceholder(rd) >>
       /\ idx' = 1
       /\ pc' = "crates"
       /\ UNCHANGED render_result
       /\ UNCHANGED resolver_vars
       /\ UNCHANGED walk_vars

RemoteCrate ==
  /\ op = "render_remote_planned_build" /\ pc = "crates" /\ idx <= Len(crate_contexts)
  /\ LET package == crate_contexts[idx]
         final == include_additional_build_file(package, render_remote_crate(package))
     IN  \E tera_ok \in BOOLEAN :
           IF ~tera_ok
             THEN RenderFails(RazeErrorRendering(<< package.pkg_name >>,
                                                 unwind_tera_error(TeraErrorChain)))
           ELSE IF ~final.ok THEN RenderFails(final.err)
           ELSE /\ file_outputs' =
                     Append(file_outputs,
                            FileOutputs(RemoteCratePath(render_details, package),
                                        final.contents))
                /\ idx' = idx + 1
                /\ UNCHANGED << pc, render_result >>
  /\ UNCHANGED << op, render_details, crate_contexts >>
  /\ UNCHANGED resolver_vars
  /\ UNCHANGED walk_vars

RemoteAliases ==
  /\ op = "render_remote_planned_build" /\ pc = "crates" /\ idx > Len(crate_contexts)
  /\ LET alias_file_path == PathJoin(render_details.path_prefix,
                                     render_details.buildfile_suffix)
     IN  \E tera_ok \in BOOLEAN :
           IF ~tera_ok
             THEN RenderFails(RazeErrorRendering(<< >>, unwind_tera_error(TeraErrorChain)))
           ELSE /\ file_outputs' =
                     Append(file_outputs,
                            FileOutputs(alias_file_path,
                                        render_remote_aliases(crate_contexts)))
                /\ pc' = "fetch"
                /\ UNCHANGED << idx, render_result >>
  /\ UNCHANGED << op, render_details, crate_contexts >>
  /\ UNCHANGED resolver_vars
  /\ UNCHANGED walk_vars

RemoteFetch ==
  /\ op = "render_remote_planned_build" /\ pc = "fetch"
  /\ LET bzl_fetch_file_path == PathJoin(render_details.path_prefix, << "crates.bzl" >>)
     IN  \E tera_ok \in BOOLEAN :
           IF ~tera_ok
             THEN RenderFails(RazeErrorRendering(<< >>, unwind_tera_error(TeraErrorChain)))
           ELSE LET outputs == Append(file_outputs,
                                      FileOutputs(bzl_fetch_file_path,
                                                  render_bzl_fetch(crate_contexts)))
                IN  /\ file_outputs' = outputs
                    /\ render_result' = RenderOk(outputs)
                    /\ pc' = "done"
                    /\ UNCHANGED idx
  /\ UNCHANGED << op, render_details, crate_contexts >>
  /\ UNCHANGED resolver_vars
  /\ UNCHANGED walk_vars

(***************************************************************************)
(* find_workspace_root.                                                    *)
(***************************************************************************)
exists(path) == path \in fs

is_workspace_root(d) ==
  LET workspace_files == << join(d, "WORKSPACE.bazel"), join(d, "WORKSPACE") >>
  IN  \E i \in DOMAIN workspace_files : exists(workspace_files[i])

(* The call, in some file system and some working directory. *)
FindStart ==
  /\ op = "none"
  /\ \E files \in FileSystems, current_dir \in CurrentDirs :
       /\ op' = "find_workspace_root"
       /\ fs' = files
       /\ cwd' = current_dir
       /\ dir' = current_dir
       /\ workspace_root' = << >>
       /\ pc' = "walk"
  /\ UNCHANGED << render_details, crate_contexts, idx, file_outputs, render_result >>
  /\ UNCHANGED resolver_vars

(* One turn of the while let loop. *)
FindStep ==
  /\ op = "find_workspace_root" /\ pc = "walk" /\ dir # << >>
  /\ LET current_dir == dir[1]
     IN  IF is_workspace_root(current_dir)
           THEN /\ workspace_root' = << current_dir >>
                /\ pc' = "done"
                /\ UNCHANGED dir
           ELSE /\ dir' = parent(current_dir)
                /\ UNCHANGED << pc, workspace_root >>
  /\ UNCHANGED << op, fs, cwd >>
  /\ UNCHANGED << render_details, crate_contexts, idx, file_outputs, render_result >>
  /\ UNCHANGED resolver_vars

(* The loop ends on None: return None. *)
FindNone ==
  /\ op = "find_workspace_root" /\ pc = "walk" /\ dir = << >>
  /\ workspace_root' = << >>
  /\ pc' = "done"
  /\ UNCHANGED << op, fs, cwd, dir >>
  /\ UNCHANGED << render_details, crate_contexts, idx, file_outputs, render_result >>
  /\ UNCHANGED resolver_vars

(* The caller is done with the results of a call. *)
Return ==
  /\ op # "none"
  /\ pc \in { "idle", "done" }
  /\ op' = "none"
  /\ target' = << >>
  /\ supported' = << FALSE, FALSE >>
  /\ matched' = NoMatched
  /\ triples' = << >>
  /\ whitelist' = << >>
  /\ conditions' = NoConditions
  /\ pc' = "idle"
  /\ render_details' = NoDetails
  /\ crate_contexts' = << >>
  /\ idx' = 0
  /\ file_outputs' = << >>
  /\ render_result' = NoResult
  /\ fs' = {}
  /\ cwd' = << >>
  /\ dir' = << >>
  /\ workspace_root' = << >>

Next ==
  \/ Return
  \/ IsSupportedCall
  \/ MatchingCall
  \/ LoadTriples
  \/ FilterCall
  \/ ConditionsCall
  \/ LocalStart
  \/ LocalCrate
  \/ LocalAliases
  \/ RemoteStart
  \/ RemoteCrate
  \/ RemoteAliases
  \/ RemoteFetch
  \/ FindStart
  \/ FindStep
  \/ FindNone

Spec == Init /\ [][Next]_vars

(***************************************************************************)
(* Properties.                                                             *)
(***************************************************************************)

(* Every input the model builds from an expression or a bare word, with the
   set of catalog triples the expression denotes. *)
Denotations ==
  { [input |-> Cfg(g.text), sat |-> g.sat] : g \in Exprs }
  \cup { [input |-> g.text, sat |-> g.sat] : g \in Bare }

(* The triples of sat in catalog order. *)
RECURSIVE InCatalogOrder(_, _)
InCatalogOrder(sat, i) ==
  IF i > Len(SUPPORTED_PLATFORM_TRIPLES) THEN << >>
  ELSE (IF SUPPORTED_PLATFORM_TRIPLES[i] \in sat
          THEN << SUPPORTED_PLATFORM_TRIPLES[i] >> ELSE << >>)
       \o InCatalogOrder(sat, i + 1)

(* C1: for every expression that parses, is_bazel_supported_platform returns
   (is_supported, matches_all) with is_supported true iff some catalog triple
   satisfies the expression and matches_all true iff every catalog triple does;
   a bare triple stands for target = "<triple>", a key/value predicate holds
   only for the key target and the triple's own identifier, flags are false. *)
C1_SupportedIffSomeAllIffEvery ==
  op = "is_bazel_supported_platform" =>
    \A d \in Denotations :
      target = d.input => supported = << d.sat # {}, d.sat = CatalogSet >>

C1_Witness ==
  /\ op = "is_bazel_supported_platform"
  /\ target = Cfg(NotOf(AllOf(<< LeafUnix, LeafTriple("x86_64-apple-darwin", TRUE) >>, TRUE)).text)
  /\ supported = << TRUE, FALSE >>

(* C2: get_matching_bazel_triples returns, for every input that parses, exactly
   the catalog triples that satisfy the expression under the rule of
   is_bazel_supported_platform, in catalog order; a bare catalog triple yields
   the list of that one triple. *)
C2_MatchingIsTheSatisfyingTriples ==
  op = "get_matching_bazel_triples" =>
    \A d \in Denotations :
      target = d.input =>
        /\ matched.ok
        /\ matched.triples = InCatalogOrder(d.sat, 1)

(* The text is certainly no expression: its parentheses do not pair up, or its
   quotes do not. *)
RECURSIVE Depth(_, _, _, _)
(* The count of "(" less the count of ")" outside quotes; -1 once it went
   negative; quoted tells whether i is inside a quoted value. *)
Depth(s, i, quoted, d) ==
  IF d < 0 THEN -1
  ELSE IF i > Len(s) THEN (IF quoted THEN -1 ELSE d)
  ELSE IF s[i] = Quote THEN Depth(s, i + 1, ~quoted, d)
  ELSE IF quoted THEN Depth(s, i + 1, quoted, d)
  ELSE IF s[i] = "(" THEN Depth(s, i + 1, quoted, d + 1)
  ELSE IF s[i] = ")" THEN Depth(s, i + 1, quoted, d - 1)
  ELSE Depth(s, i + 1, quoted, d)

Unbalanced(text) == Depth(text, 1, FALSE, 0) # 0

(* The input is syntactically invalid: the expression it stands for does not
   parse, which covers every text whose parentheses or quotes do not pair up. *)
Invalid(t) ==
  \/ Unbalanced(SupportedTargetExp(t))
  \/ ~ExpressionParse(SupportedTargetExp(t)).ok

(* C3: for a syntactically invalid expression is_bazel_supported_platform
   returns (false, false) and get_matching_bazel_triples fails, with no list. *)
C3_InvalidIsFalseFalseAndErr ==
  /\ op = "is_bazel_supported_platform" /\ Invalid(target)
       => supported = << FALSE, FALSE >>
  /\ op = "get_matching_bazel_triples" /\ Invalid(target)
       => ~matched.ok /\ matched.triples = << >>

C3_Witness ==
  /\ op = "get_matching_bazel_triples"
  /\ target = << "cfg", "(", "not", "(", "unix", ")" >>
  /\ ~matched.ok

(* C4: a tautology over the catalog, in particular not(p) for a predicate p no
   catalog triple satisfies, gives (true, true), and p itself (false, false). *)
C4_TautologyIsTrueTrue ==
  op = "is_bazel_supported_platform" =>
    /\ \A sp \in BOOLEAN : \A p \in AbsentLeaves(sp) :
         /\ target = Cfg(NotOf(p).text) => supported = << TRUE, TRUE >>
         /\ target = Cfg(p.text) => supported = << FALSE, FALSE >>
    /\ \A g \in Exprs :
         g.sat = CatalogSet /\ target = Cfg(g.text) => supported = << TRUE, TRUE >>

C4_Witness ==
  /\ op = "is_bazel_supported_platform"
  /\ target = Cfg(NotOf(LeafRedox(TRUE)).text)
  /\ supported = << TRUE, TRUE >>


IsSorted(s) == \A i \in 1..(Len(s) - 1) : StringLe(s[i], s[i + 1])
Range(s) == { s[i] : i \in DOMAIN s }
Count(s, x) == Cardinality({ i \in DOMAIN s : s[i] = x })

(* C5 as claimed: after filter_bazel_triples returns the list is sorted, for
   every input list and every whitelist, the empty whitelist included. *)
C5_AlwaysSorted ==
  op = "filter_bazel_triples" => IsSorted(triples)

(* C5 as amended: after filter_bazel_triples returns with a non-empty whitelist
   the list is sorted, whatever the order of the input; with an empty whitelist
   the list is left as it was, in its input order. *)
C5_SortedWhenWhitelistNonEmpty ==
  [][ op = "load" /\ op' = "filter_bazel_triples" =>
        /\ whitelist # << >> => IsSorted(triples')
        /\ whitelist = << >> => triples' = triples ]_vars

C5_Witness ==
  /\ op = "filter_bazel_triples"
  /\ whitelist = << "i686-apple-darwin", "aarch64-apple-ios" >>
  /\ triples = << "aarch64-apple-ios", "i686-apple-darwin", "i686-apple-darwin" >>

(* C6: filter_bazel_triples keeps exactly the input triples that occur in a
   non-empty whitelist, each with its multiplicity, and adds nothing; with an
   empty whitelist the elements of the list are unchanged; the whitelist is
   never modified. *)
C6_FilterKeepsExactlyWhitelisted ==
  [][ op = "load" /\ op' = "filter_bazel_triples" =>
        /\ whitelist' = whitelist
        /\ whitelist # << >> =>
             \A x \in ListNames :
               Count(triples', x) = IF x \in Range(whitelist) THEN Count(triples, x) ELSE 0
        /\ whitelist = << >> => Range(triples') = Range(triples) ]_vars

C6_Witness ==
  /\ op = "filter_bazel_triples"
  /\ whitelist # << >>
  /\ Len(triples) = 2
  /\ triples[1] = triples[2]
  /\ Range(whitelist) # Range(triples)

(* The names the builtin target lookup resolves. *)
BuiltinTriples == { b.triple : b \in BuiltinTargets }

(* C7: generate_bazel_conditions is all-or-nothing: with a triple the builtin
   lookup does not resolve, at any position, it returns an error naming the
   first such triple and no labels; otherwise one label
   "@io_bazel_rules_rust//rust/platform:<triple>" per input triple, sorted. *)
C7_ConditionsAllOrNothing ==
  op = "generate_bazel_conditions" =>
    LET bad == { i \in DOMAIN triples : triples[i] \notin BuiltinTriples }
    IN  IF bad # {}
          THEN /\ ~conditions.ok
               /\ conditions.labels = << >>
               /\ conditions.err = << triples[CHOOSE i \in bad : \A j \in bad : i <= j] >>
          ELSE /\ conditions.ok
               /\ Len(conditions.labels) = Len(triples)
               /\ \A i \in DOMAIN conditions.labels :
                    /\ conditions.labels[i][1] = "@io_bazel_rules_rust//rust/platform:"
                    /\ Len(conditions.labels[i]) = 2
               /\ \A x \in ListNames :
                    Count(triples, x) = Count([i \in DOMAIN conditions.labels |->
                                                 conditions.labels[i][2]], x)
               /\ IsSorted([i \in DOMAIN conditions.labels |-> conditions.labels[i][2]])

C7_Witness ==
  /\ op = "generate_bazel_conditions"
  /\ Len(triples) >= 2
  /\ triples[1] \in BuiltinTriples
  /\ triples[2] \notin BuiltinTriples
  /\ ~conditions.ok

(* C8: a successful render_planned_build of N crates returns N+1 outputs: the
   i-th at <path_prefix>/<expected_build_path of the i-th crate>, the last the
   root build file at <path_prefix>/<buildfile_suffix>. *)
C8_LocalOutputs ==
  op = "render_planned_build" /\ pc = "done" /\ render_result.ok =>
    LET out == render_result.outputs
        n == Len(crate_contexts)
    IN  /\ Len(out) = n + 1
        /\ \A i \in 1..n :
             out[i].path = render_details.path_prefix \o << "/" >>
                             \o crate_contexts[i].expected_build_path
        /\ out[n + 1].path = render_details.path_prefix \o << "/" >>
                               \o render_details.buildfile_suffix

C8_Witness ==
  /\ op = "render_planned_build" /\ pc = "done" /\ render_result.ok
  /\ Len(crate_contexts) = 2
  /\ crate_contexts[1] # crate_contexts[2]
  /\ Len(render_result.outputs) = 3

(* C9: a successful render_remote_planned_build of N crates returns N+3
   outputs: an empty placeholder at <path_prefix>/remote/<buildfile_suffix>,
   the N crate files in crate-list order, the alias file at
   <path_prefix>/<buildfile_suffix>, and <path_prefix>/crates.bzl. *)
C9_RemoteOutputs ==
  op = "render_remote_planned_build" /\ pc = "done" /\ render_result.ok =>
    LET out == render_result.outputs
        n == Len(crate_contexts)
        prefix == render_details.path_prefix
    IN  /\ Len(out) = n + 3
        /\ out[1].path = prefix \o << "/", "remote", "/" >> \o render_details.buildfile_suffix
        /\ out[1].contents = << >>
        /\ \A i \in 1..n :
             /\ out[i + 1].path = prefix \o << "/" >> \o crate_contexts[i].expected_build_path
             /\ out[i + 1].contents # << >>
        /\ out[n + 2].path = prefix \o << "/" >> \o render_details.buildfile_suffix
        /\ out[n + 3].path = prefix \o << "/", "crates.bzl" >>

C9_Witness ==
  /\ op = "render_remote_planned_build" /\ pc = "done" /\ render_result.ok
  /\ Len(crate_contexts) = 2
  /\ Len(render_result.outputs) = 5

UnderRemote(path, prefix) == StartsWith(path, prefix \o << "/", "remote", "/" >>)

(* C10 as claimed: in remote mode every crate build file of the returned
   outputs has a path under <path_prefix>/remote/, for every crate and every
   expected_build_path. *)
C10_CrateFilesUnderRemote ==
  op = "render_remote_planned_build" /\ pc = "done" /\ render_result.ok =>
    \A i \in 1..Len(crate_contexts) :
      UnderRemote(render_result.outputs[i + 1].path, render_details.path_prefix)

(* C10 as amended: in remote mode a crate's build file is at
   <path_prefix>/<expected_build_path>, so it is under <path_prefix>/remote/
   exactly when the crate's expected_build_path starts with remote/. *)
C10_UnderRemoteIffPathSaysSo ==
  op = "render_remote_planned_build" /\ pc = "done" /\ render_result.ok =>
    \A i \in 1..Len(crate_contexts) :
      /\ render_result.outputs[i + 1].path =
           render_details.path_prefix \o << "/" >> \o crate_contexts[i].expected_build_path
      /\ UnderRemote(render_result.outputs[i + 1].path, render_details.path_prefix)
           <=> StartsWith(crate_contexts[i].expected_build_path, << "remote", "/" >>)

C10_Witness ==
  /\ op = "render_remote_planned_build" /\ pc = "done" /\ render_result.ok
  /\ Len(crate_contexts) = 2
  /\ StartsWith(crate_contexts[1].expected_build_path, << "remote", "/" >>)
  /\ ~StartsWith(crate_contexts[2].expected_build_path, << "remote", "/" >>)
  /\ UnderRemote(render_result.outputs[2].path, render_details.path_prefix)
  /\ ~UnderRemote(render_result.outputs[3].path, render_details.path_prefix)

RenderOps == { "render_planned_build", "render_remote_planned_build" }

Unreadable(package) ==
  /\ package.additional_build_file # << >>
  /\ package.additional_build_file[1] \notin ReadableFiles

TeraMessage == unwind_tera_error(TeraErrorChain)

(* C11: a render call, local or remote, of a plan in which some crate
   declares an additional_build_file that cannot be read never succeeds and
   returns no file outputs at all; it stops at the first such crate or
   earlier, and when it stops at the failed read the error carries that
   crate's package name and the I/O message, also when crates before it had
   already been rendered. *)
C11_UnreadableFailsWholeCall ==
  op \in RenderOps /\ pc = "done"
    /\ (\E i \in DOMAIN crate_contexts : Unreadable(crate_contexts[i])) =>
      /\ ~render_result.ok
      /\ render_result.outputs = << >>
      /\ idx \in DOMAIN crate_contexts
      /\ \A i \in 1..(idx - 1) : ~Unreadable(crate_contexts[i])
      /\ IF render_result.err.message = TeraMessage
           THEN TRUE
           ELSE /\ Unreadable(crate_contexts[idx])
                /\ render_result.err.crate_name_opt = << crate_contexts[idx].pkg_name >>
                /\ render_result.err.message =
                     << "failed to read additional_build_file: ", IoErrorMessage >>

C11_Witness ==
  /\ op \in RenderOps /\ pc = "done"
  /\ Len(crate_contexts) = 2
  /\ ~Unreadable(crate_contexts[1])
  /\ Unreadable(crate_contexts[2])
  /\ crate_contexts[1].pkg_name # crate_contexts[2].pkg_name
  /\ idx = 2
  /\ render_result.err.crate_name_opt = << crate_contexts[2].pkg_name >>
  /\ IoErrorMessage \in Range(render_result.err.message)
  /\ render_result.outputs = << >>

(* The outputs of the crates in a returned list: remote mode puts the
   placeholder before them. *)
CrateOutput(i) ==
  IF op = "render_remote_planned_build"
    THEN render_result.outputs[i + 1]
    ELSE render_result.outputs[i]

GeneratedBody(package) ==
  IF op = "render_remote_planned_build"
    THEN render_remote_crate(package)
    ELSE render_crate(package)

(* C12: in a successful render, the contents of a crate that declares a
   readable additional_build_file are its generated body, then the line
   "# Additional content from <path>", then the contents of the file; the
   contents of a crate that declares none are its generated body unchanged.
   Each crate's contents depend on that crate alone. *)
C12_AdditionalContentAppended ==
  op \in RenderOps /\ pc = "done" /\ render_result.ok =>
    \A i \in DOMAIN crate_contexts :
      LET package == crate_contexts[i]
          body == GeneratedBody(package)
      IN  IF package.additional_build_file = << >>
            THEN CrateOutput(i).contents = body
          ELSE LET file_path == package.additional_build_file[1]
               IN  /\ file_path \in ReadableFiles
                   /\ CrateOutput(i).contents =
                        body \o << "\n# Additional content from " >> \o file_path
                             \o << "\n" >> \o FileContents(file_path)

C12_Witness ==
  /\ op \in RenderOps /\ pc = "done" /\ render_result.ok
  /\ Len(crate_contexts) = 2
  /\ crate_contexts[1].additional_build_file = << << "README.md" >> >>
  /\ crate_contexts[2].additional_build_file = << >>
  /\ crate_contexts[1].pkg_name # crate_contexts[2].pkg_name
  /\ Len(CrateOutput(1).contents) > Len(GeneratedBody(crate_contexts[1]))
  /\ CrateOutput(2).contents = GeneratedBody(crate_contexts[2])

(* C13: when a render call, local or remote, fails with a template error,
   the error names the crate whose build file was being rendered
   (crate_name_opt = Some(pkg_name)) if the failure was in the crate loop,
   and names no crate (None) only if it was the root/alias file or the fetch
   file that failed. *)
C13_CrateTemplateFailureNamesCrate ==
  op \in RenderOps /\ pc = "done" /\ ~render_result.ok
    /\ render_result.err.message = TeraMessage =>
      IF idx \in DOMAIN crate_contexts
        THEN render_result.err.crate_name_opt = << crate_contexts[idx].pkg_name >>
        ELSE render_result.err.crate_name_opt = << >>

(* A directory and its parents, up to the root. *)
Ancestors(d) == { SubSeq(d, 1, k) : k \in 0..Len(d) }

HasWorkspaceFile(d) == \E n \in WorkspaceFileNames : join(d, n) \in fs

IsParentOf(p, d) == Len(d) > 0 /\ p = SubSeq(d, 1, Len(d) - 1)

(* What find_workspace_root has to return. *)
C14_Result ==
  op = "find_workspace_root" /\ pc = "done" =>
    IF cwd = << >> THEN workspace_root = << >>
    ELSE LET roots == { d \in Ancestors(cwd[1]) : HasWorkspaceFile(d) }
         IN  IF roots = {} THEN workspace_root = << >>
             ELSE /\ workspace_root # << >>
                  /\ workspace_root[1] \in roots
                  /\ \A d \in roots : Len(d) <= Len(workspace_root[1])

(* A walk that has not returned can take a step that changes the state. *)
C14_Progress ==
  op = "find_workspace_root" /\ pc = "walk" =>
    ENABLED << FindStep \/ FindNone >>_vars

(* A step of the walk that does not return moves from a directory to its
   parent, or to None from the root. *)
C14_StepToParent ==
  op = "find_workspace_root" /\ pc = "walk" /\ pc' = "walk" /\ dir' # dir =>
    /\ dir # << >>
    /\ IF dir[1] = << >> THEN dir' = << >>
       ELSE dir' # << >> /\ IsParentOf(dir'[1], dir[1])

(* C14: find_workspace_root returns None when the current directory cannot
   be read or when neither it nor any of its parents contains WORKSPACE.bazel
   or WORKSPACE, and otherwise returns the nearest of these directories that
   contains one; the walk terminates: until it returns, a step is possible,
   and every step moves to the parent, or ends the loop at the root. *)
C14_NearestRootAndTermination ==
  /\ [](C14_Result /\ C14_Progress)
  /\ [][C14_StepToParent]_vars

C14_Witness ==
  /\ op = "find_workspace_root" /\ pc = "done"
  /\ cwd # << >> /\ Len(cwd[1]) = 2
  /\ HasWorkspaceFile(<< >>)
  /\ ~HasWorkspaceFile(cwd[1])
  /\ HasWorkspaceFile(SubSeq(cwd[1], 1, 1))
  /\ workspace_root = << SubSeq(cwd[1], 1, 1) >>

(* The number of outputs before the first crate's. *)
Offset == IF op = "render_remote_planned_build" THEN 1 ELSE 0

IsCrateEntry(entry, package) ==
  /\ entry.path = render_details.path_prefix \o << "/" >> \o package.expected_build_path
  /\ StartsWith(entry.contents, GeneratedBody(package))

(* The first k crates have their entries, in crate-list order. *)
CrateEntriesInOrder(outputs, k) ==
  /\ Len(outputs) >= Offset + k
  /\ \A i \in 1..k : IsCrateEntry(outputs[Offset + i], crate_contexts[i])

(* The entry lists every crate of the plan, in order. *)
ListsEveryCrate(entry) ==
  /\ entry.contents # << >>
  /\ Tail(entry.contents) = [i \in DOMAIN crate_contexts |-> crate_contexts[i].pkg_name]

IsAliasEntry(entry) ==
  /\ entry.path = render_details.path_prefix \o << "/" >> \o render_details.buildfile_suffix
  /\ ListsEveryCrate(entry)

IsFetchEntry(entry) ==
  /\ entry.path = render_details.path_prefix \o << "/", "crates.bzl" >>
  /\ ListsEveryCrate(entry)

(* Where a render call stands, and what it has built so far. *)
C15_Stages ==
  op \in RenderOps =>
    LET n == Len(crate_contexts)
    IN  /\ pc = "crates" =>
             /\ idx \in 1..(n + 1)
             /\ Len(file_outputs) = Offset + idx - 1
             /\ CrateEntriesInOrder(file_outputs, idx - 1)
        /\ pc = "fetch" =>
             /\ op = "render_remote_planned_build"
             /\ idx = n + 1
             /\ Len(file_outputs) = n + 2
             /\ CrateEntriesInOrder(file_outputs, n)
             /\ IsAliasEntry(file_outputs[n + 2])
        /\ pc = "done" /\ render_result.ok =>
             /\ idx = n + 1
             /\ Len(render_result.outputs) = n + 1 + 2 * Offset
             /\ CrateEntriesInOrder(render_result.outputs, n)
             /\ IsAliasEntry(render_result.outputs[Offset + n + 1])
             /\ op = "render_remote_planned_build" =>
                  IsFetchEntry(render_result.outputs[n + 3])
        /\ pc = "done" /\ ~render_result.ok =>
             /\ idx \in 1..(n + 1)
             /\ render_result.outputs = << >>

(* A step of a render call: the next crate of the list, the alias file once
   the list is exhausted, the fetch file after the alias file, and nothing
   after a failure or a return. *)
C15_Steps ==
  op \in RenderOps /\ op' = op =>
    LET n == Len(crate_contexts)
    IN  /\ pc # "done"
        /\ pc = "crates" /\ pc' = "crates" =>
             /\ idx <= n
             /\ idx' = idx + 1
             /\ Len(file_outputs') = Len(file_outputs) + 1
             /\ SubSeq(file_outputs', 1, Len(file_outputs)) = file_outputs
             /\ IsCrateEntry(file_outputs'[Len(file_outputs')], crate_contexts[idx])
        /\ pc = "crates" /\ (pc' = "fetch" \/ (pc' = "done" /\ render_result'.ok)) =>
             /\ idx = n + 1
             /\ SubSeq(file_outputs', 1, Len(file_outputs)) = file_outputs
        /\ pc = "fetch" => pc' = "done"
        /\ pc' = "done" /\ ~render_result'.ok =>
             /\ idx' = idx
             /\ render_result'.outputs = << >>

(* C15: in both render modes the crates are rendered one after the other in
   crate-list order, each crate's template render and additional-build-file
   inclusion making one entry, and the first failure ends the call; the alias
   file, and in remote mode the fetch file after it, is rendered only when
   every crate has its entry, and lists every crate of the plan; the crate
   entries of the returned list are in crate-list order. *)
C15_OrderedStepsThenAliases ==
  /\ []C15_Stages
  /\ [][C15_Steps]_vars

C15_Witness ==
  /\ op = "render_remote_planned_build" /\ pc = "done" /\ render_result.ok
  /\ Len(crate_contexts) = 2
  /\ crate_contexts[1].pkg_name # crate_contexts[2].pkg_name
  /\ crate_contexts[1].expected_build_path # crate_contexts[2].expected_build_path
  /\ IsCrateEntry(render_result.outputs[2], crate_contexts[1])
  /\ IsCrateEntry(render_result.outputs[3], crate_contexts[2])
  /\ IsAliasEntry(render_result.outputs[4])
  /\ IsFetchEntry(render_result.outputs[5])

====
